---- MODULE Spec2Model ----
(***************************************************************************)
(* MentorMirror: the analysis pipeline (mentor_mirror_pipeline.py), the    *)
(* style emulator (style_emulation_system.py), the scraper (url2txts.py)   *)
(* and the desktop GUI (mentor_mirror_gui.py) as state machines.           *)
(*                                                                         *)
(* Strings the code inspects character by character (author names, file    *)
(* names) are sequences of one-character strings.  JSON values are records *)
(* carrying what the code reads of them: their Python type, truthiness,    *)
(* the length of their json.dump text and of their str() form.             *)
(***************************************************************************)
EXTENDS Integers, Sequences, FiniteSets, TLC

VARIABLES
    \* ---- the file system under mentors/ and the clock
    now,            \* datetime.datetime.now(), in seconds
    mentors_db,     \* mentors/mentors.json: safe_name -> entry
    styles,         \* mentors/styles/<safe_name>.json: safe_name -> JSON value
    sessions,       \* mentors/sessions/<dir>: dir -> names of the files in it
    \* ---- one run of MentorMirror.run_complete_analysis
    pc,             \* the step the run is at ("idle" between runs)
    run,            \* locals of the run: mentor_name, output_dir, results, ...
    \* ---- what the runs and rewrites did (history)
    runCount,       \* runs started so far
    succeeded,      \* mentor names of the runs that returned success = True
    unknownNames,   \* the name given to each run whose author was not inferred
    dirWriters,     \* session dir -> ids of the runs that wrote into it
    styleWriters,   \* safe_name -> ids of the runs that wrote the central style file
    lastRewrite,    \* the last rewrite action: mentor name and what it reported
    \* ---- MentorMirrorGUI
    processes,      \* self.processes: the QProcess objects, in list order
    launched,       \* QProcess objects created so far
    buttons_enabled,\* add_mentor_button and rewrite_button (set_buttons_enabled)
    cancel_enabled, \* cancel_button
    url_input,      \* text of the URL field
    user_text,      \* text of the user text box
    author_items,   \* item data (safe names) of author_selector
    author_current, \* author_selector.currentData(), NoMentor when empty
    preserve_tone,  \* preserve_tone_checkbox.isChecked()
    last_rewritten_text, \* self.last_rewritten_text
    tts_visible,    \* play_pause_button and tts_status_label are visible
    tts_sent,       \* the text and mode of the last TTSWorker started
    alive,          \* ids of the subprocesses started and not yet finished
    closed,         \* closeEvent has run
    \* ---- url2txts.main
    scr_pc,         \* where main's loop over the sections is
    scr_section,    \* i, the section being processed
    scr_content,    \* what extract_content_from_url returned for it
    scr_runs,       \* agent.run calls made by the current extract_content_from_url
    scr_chunks,     \* chunks collected so far by extract_content_chunked
    scr_error,      \* error_msg of the except branch, NoError when nothing was raised
    scr_files,      \* files in the output directory
    scr_saved,      \* sections for which save_content returned True
    \* ---- one call of a function on its own
    fn_call,        \* the function called and its arguments
    fn_result       \* what it returned, Pending until it has

pipeVars == <<now, mentors_db, styles, sessions, pc, run, runCount, succeeded,
              unknownNames, dirWriters, styleWriters, lastRewrite>>

ttsVars == <<preserve_tone, last_rewritten_text, tts_visible, tts_sent>>

guiVars == <<processes, launched, buttons_enabled, cancel_enabled, url_input,
             user_text, author_items, author_current, ttsVars, alive, closed>>

scrVars == <<scr_pc, scr_section, scr_content, scr_runs, scr_chunks, scr_error,
             scr_files, scr_saved>>

fnVars == <<fn_call, fn_result>>

vars == <<pipeVars, guiVars, scrVars, fnVars>>

\* ------------------------------------------------------------------ bounds
MaxRuns == 2
MaxTime == 1
MaxProcs == 2
MaxChunks == 1
MaxSections == 2
MaxSteps == 2
MaxTextLen == 3
MaxPad == 1
MaxTaken == 2
MaxSlack == 1
TicksPerDay == 1

\* validate_json_file's default min_size
MinSize == 50

\* ------------------------------------------------------------------ strings
UpperChars == <<"A","B","C","D","E","F","G","H","I","J","K","L","M",
                "N","O","P","Q","R","S","T","U","V","W","X","Y","Z">>
LowerChars == <<"a","b","c","d","e","f","g","h","i","j","k","l","m",
                "n","o","p","q","r","s","t","u","v","w","x","y","z">>
DigitChars == <<"0","1","2","3","4","5","6","7","8","9">>

Range(s) == {s[i] : i \in DOMAIN s}

\* str.lower() on one character
LowerChar(c) ==
    IF \E i \in DOMAIN UpperChars : UpperChars[i] = c
    THEN LowerChars[CHOOSE i \in DOMAIN UpperChars : UpperChars[i] = c]
    ELSE c

\* str.lower()
Lower(s) == [i \in DOMAIN s |-> LowerChar(s[i])]

\* str.replace(a, b) for one-character a and b
Replace(s, a, b) == [i \in DOMAIN s |-> IF s[i] = a THEN b ELSE s[i]]

\* re.sub(r'[^a-z0-9_\-]', '', s)
SafeChars == Range(LowerChars) \cup Range(DigitChars) \cup {"_", "-"}

safe_filename(name) ==
    SelectSeq(Replace(Lower(name), " ", "_"), LAMBDA c : c \in SafeChars)

RECURSIVE Decimal(_)
\* str(n) for n >= 0
Decimal(n) ==
    IF n < 10 THEN <<DigitChars[n + 1]>>
    ELSE Decimal(n \div 10) \o <<DigitChars[(n % 10) + 1]>>

UnknownAuthor == <<"U","n","k","n","o","w","n"," ","A","u","t","h","o","r">>

RECURSIVE NextFreeUnknown(_, _)
\* the while loop of get_unique_author_name
NextFreeUnknown(counter, keys) ==
    LET candidate_name == UnknownAuthor \o <<" ">> \o Decimal(counter)
    IN  IF safe_filename(candidate_name) \notin keys
        THEN candidate_name
        ELSE NextFreeUnknown(counter + 1, keys)

get_unique_author_name(base_name, db) ==
    IF Lower(base_name) # Lower(UnknownAuthor)
    THEN base_name
    ELSE NextFreeUnknown(1, DOMAIN db)

\* ------------------------------------------------------------------ StyleEmulator.infer_author_name
Whitespace == {" ", "\n", "\t"}

RECURSIVE Strip(_, _)
\* str.strip(chars)
Strip(s, chars) ==
    IF s = <<>> THEN s
    ELSE IF Head(s) \in chars THEN Strip(Tail(s), chars)
    ELSE IF s[Len(s)] \in chars THEN Strip(SubSeq(s, 1, Len(s) - 1), chars)
    ELSE s

\* len(s.split()): the maximal runs of non-whitespace characters
WordCount(s) ==
    Cardinality({i \in DOMAIN s :
        /\ s[i] \notin Whitespace
        /\ (i = 1 \/ s[i - 1] \in Whitespace)})

\* An LLM reply: the call raises, or response.content is `content`.
Raises(reply) == reply.raises

\* infer_author_name returning the stripped reply without validating it
InferAuthorNameUnchecked(reply) ==
    IF Raises(reply) THEN UnknownAuthor
    ELSE LET author_name == Strip(Strip(Strip(reply.content, Whitespace), {"\""}), {"'"})
         IN  IF author_name # <<>> THEN author_name ELSE UnknownAuthor

infer_author_name(reply) ==
    IF Raises(reply) THEN UnknownAuthor
    ELSE LET author_name == Strip(Strip(Strip(reply.content, Whitespace), {"\""}), {"'"})
         IN  IF Len(author_name) > 50 \/ WordCount(author_name) > 4
             THEN UnknownAuthor
             ELSE IF author_name # <<>> THEN author_name ELSE UnknownAuthor

\* MentorMirror.infer_author_from_content; db is mentors.json as load_mentors_db reads it
infer_author_from_content(reply, db) ==
    LET author_name == infer_author_name(reply)
    IN  IF Lower(author_name) = Lower(UnknownAuthor)
        THEN get_unique_author_name(author_name, db)
        ELSE author_name

\* the author could not be inferred: the emulator fell back to "Unknown Author"
\* or the model itself answered so
AuthorNotInferred(reply) == Lower(infer_author_name(reply)) = Lower(UnknownAuthor)

\* ------------------------------------------------------------------ JSON values and files
\* A JSON value as Python holds it: type(data), bool(data), len(str(data)), and the
\* length of the text json.dump(data, indent=2) writes.
JsonValue(type, truthy, textlen, strlen) ==
    [type |-> type, truthy |-> truthy, textlen |-> textlen, strlen |-> strlen]

\* json.loads / load_style_analysis gave nothing (None)
NoJson == JsonValue("none", FALSE, 0, 0)

\* A file: its text length, whether json.loads accepts the text, and the value.
JsonFileOf(v) == [textlen |-> v.textlen, parses |-> TRUE, value |-> v]

Put(f, k, v) == [x \in DOMAIN f \cup {k} |-> IF x = k THEN v ELSE f[x]]

\* os.path.exists(path) is false
NoFile == [textlen |-> 0, parses |-> FALSE, value |-> NoJson]

\* the file at path in a directory
FileAt(files, path) == IF path \in DOMAIN files THEN files[path] ELSE NoFile

\* validate_json_file accepting a value whose string form has just min_size
\* characters
ValidateJsonFileAtLeast(file, min_size) ==
    /\ file # NoFile
    /\ file.textlen >= min_size
    /\ file.parses
    /\ file.value.type \in {"dict", "list"}
    /\ file.value.strlen >= min_size

\* validate_json_file(file_path, min_size), file being what is at file_path
validate_json_file(file, min_size) ==
    /\ file # NoFile
    /\ file.textlen >= min_size
    /\ file.parses
    /\ file.value.type \in {"dict", "list"}
    /\ file.value.strlen > min_size

\* session artifacts
FileName(name, date) == [name |-> name, date |-> date]
StyleAnalysisJson == FileName("style_analysis.json", -1)
MentorPromptsJson == FileName("mentor_prompts.json", -1)
SessionSummaryJson == FileName("session_summary.json", -1)
MentorgramJson(date) == FileName("mentorgram.json", date)


\* ------------------------------------------------------------------ StyleEmulator.analyze_writing_style
\* An LLM response to the analysis prompt: the call raises; or its text holds a
\* ```json fenced object, or is JSON as a whole (json |-> the value), or is prose
\* of rawlen characters (json |-> NoJson).
GoodDict == JsonValue("dict", TRUE, 120, 100)

StyleResponse(raises, fenced, json, rawlen) ==
    [raises |-> raises, fenced |-> fenced, json |-> json, rawlen |-> rawlen]

StyleResponses ==
    { StyleResponse(TRUE, FALSE, NoJson, 0),
      StyleResponse(FALSE, TRUE, GoodDict, 140),
      StyleResponse(FALSE, FALSE, GoodDict, 120),
      StyleResponse(FALSE, FALSE, JsonValue("dict", FALSE, 2, 2), 2),
      StyleResponse(FALSE, FALSE, JsonValue("list", TRUE, 120, 100), 120),
      StyleResponse(FALSE, FALSE, NoJson, 10) }

\* the except branch: {"analysis": response.content, "raw_response": True}
RawFallback(rawlen) == JsonValue("dict", TRUE, rawlen + 44, rawlen + 38)

\* analyze_writing_style without its except branch
AnalyzeWritingStyleNoFallback(resp) == resp.json

analyze_writing_style(resp) ==
    IF resp.json # NoJson THEN resp.json ELSE RawFallback(resp.rawlen)

\* StyleEmulator.create_mentor_style_prompts: four templates around the style text
create_mentor_style_prompts(style_analysis) ==
    JsonValue("dict", TRUE, 1400 + 4 * style_analysis.textlen,
                            1300 + 4 * style_analysis.textlen)

\* ------------------------------------------------------------------ MentorMirror

NoDir == [name |-> <<>>, ts |-> -1]

IdleRun ==
    [id |-> 0, mentor_name |-> <<>>, unknown |-> FALSE, output_dir |-> NoDir,
     style_analysis |-> NoJson, date |-> -1,
     success |-> FALSE, errors |-> <<>>, completed_steps |-> <<>>,
     attempts |-> [s \in {"style_analysis", "mentor_prompts", "mentorgram",
                           "session_summary"} |-> 0],
     invalid |-> {}]

\* the author replies the inference step is tried on
AuthorReply(raises, content) == [raises |-> raises, content |-> content]
AuthorReplies ==
    { AuthorReply(TRUE, <<>>),
      AuthorReply(FALSE, <<"A","l"," ","B">>),
      AuthorReply(FALSE, <<" ","\"","a","l","_","b","\"","\n">>),
      AuthorReply(FALSE, UnknownAuthor),
      AuthorReply(FALSE, Lower(UnknownAuthor)),
      AuthorReply(FALSE, <<>>),
      AuthorReply(FALSE, <<"a"," ","b"," ","c"," ","d"," ","e">>) }

Attempt(r, step) == [r EXCEPT !.attempts[step] = @ + 1]
Failed(r, err) == [r EXCEPT !.errors = Append(@, err)]
Completed(r, step) == [r EXCEPT !.completed_steps = Append(@, step)]
Invalid(r, step) == [r EXCEPT !.invalid = @ \cup {step}]

\* a workflow that retries: a step that returned nothing is run once more
AfterFailedStepRetry(step, here) == IF run.attempts[step] < 1 THEN here ELSE "done"

\* where run_complete_analysis goes when a step returned nothing: `return results`
AfterFailedStep(step, here) == "done"

\* datetime.datetime.now() advances
Tick ==
    /\ now < MaxTime
    /\ now' = now + 1
    /\ UNCHANGED <<mentors_db, styles, sessions, pc, run, runCount, succeeded,
                   unknownNames, dirWriters, styleWriters, lastRewrite,
                   guiVars, scrVars, fnVars>>

\* run_complete_analysis up to step 1: load the content, infer the author
InferAuthor(contentFound, reply) ==
    /\ pc = "idle"
    /\ runCount < MaxRuns
    /\ runCount' = runCount + 1
    /\ LET r == [IdleRun EXCEPT !.id = runCount + 1]
           mentor_name == infer_author_from_content(reply, mentors_db)
       IN  IF ~contentFound
           THEN \* load_mentor_content raises FileNotFoundError: the outer except
                /\ run' = Failed(r, "Critical error")
                /\ pc' = "done"
                /\ UNCHANGED unknownNames
           ELSE /\ run' = Completed(
                      [r EXCEPT !.mentor_name = mentor_name,
                                !.unknown = AuthorNotInferred(reply)],
                      "author_inference")
                /\ pc' = "setup"
                /\ unknownNames' = IF AuthorNotInferred(reply)
                                   THEN Append(unknownNames, mentor_name)
                                   ELSE unknownNames
    /\ UNCHANGED <<now, mentors_db, styles, sessions, succeeded,
                   dirWriters, styleWriters, lastRewrite,
                   guiVars, scrVars, fnVars>>

\* MentorMirror.setup_session: the directory name and os.makedirs(exist_ok=True)
SessionDir(mentor_name, t) == [name |-> safe_filename(mentor_name), ts |-> t]

SetupSession ==
    /\ pc = "setup"
    /\ LET dir == SessionDir(run.mentor_name, now)
       IN  /\ run' = [run EXCEPT !.output_dir = dir]
           /\ sessions' = IF dir \in DOMAIN sessions THEN sessions
                          ELSE Put(sessions, dir, {})
           /\ dirWriters' = Put(dirWriters, dir,
                                (IF dir \in DOMAIN dirWriters THEN dirWriters[dir] ELSE {})
                                \cup {run.id})
    /\ pc' = "style"
    /\ UNCHANGED <<now, mentors_db, styles, runCount, succeeded, unknownNames,
                   styleWriters, lastRewrite,
                   guiVars, scrVars, fnVars>>

\* open(path, 'w') and json.dump in the session directory
SessionWrite(sess, dir, name) == [sess EXCEPT ![dir] = @ \cup {name}]

\* analyze_mentor_style saving to the central store only
SessionStyleWriteSkipped(sess, dir) == sess

\* analyze_mentor_style, lines 148-152: the copy in the session directory
SessionStyleWrite(sess, dir) == SessionWrite(sess, dir, StyleAnalysisJson)

\* Step 2. io names the write that raises IOError, if any.
AnalyzeStyle(resp, io) ==
    /\ pc = "style"
    /\ LET r == Attempt(run, "style_analysis")
           safe_name == safe_filename(run.mentor_name)
           v == analyze_writing_style(resp)
           sessionWritten == ~resp.raises /\ io # "session"
           centralWritten == sessionWritten /\ io # "central"
           styles1 == IF centralWritten THEN Put(styles, safe_name, JsonFileOf(v))
                      ELSE styles
           valid == centralWritten
                    /\ validate_json_file(FileAt(styles1, safe_name), MinSize)
       IN  /\ sessions' = IF sessionWritten
                          THEN SessionStyleWrite(sessions, run.output_dir)
                          ELSE sessions
           /\ styles' = styles1
           /\ styleWriters' =
                IF centralWritten
                THEN Put(styleWriters, safe_name,
                         (IF safe_name \in DOMAIN styleWriters
                          THEN styleWriters[safe_name] ELSE {}) \cup {run.id})
                ELSE styleWriters
           /\ IF valid /\ v.truthy
              THEN /\ run' = Completed([r EXCEPT !.style_analysis = v], "style_analysis")
                   /\ pc' = "prompts"
              ELSE /\ run' = Failed(IF centralWritten /\ ~valid
                                    THEN Invalid(r, "style_analysis") ELSE r,
                                    "Style analysis failed")
                   /\ pc' = AfterFailedStep("style_analysis", "style")
    /\ UNCHANGED <<now, mentors_db, runCount, succeeded, unknownNames,
                   dirWriters, lastRewrite,
                   guiVars, scrVars, fnVars>>

\* Step 3: generate_mentor_prompts
GeneratePrompts(io) ==
    /\ pc = "prompts"
    /\ LET r == Attempt(run, "mentor_prompts")
           \* style_analysis.get on a list raises AttributeError
           raised == run.style_analysis.type # "dict"
           prompts == create_mentor_style_prompts(run.style_analysis)
           written == ~raised /\ io = "ok"
           valid == written /\ validate_json_file(JsonFileOf(prompts), MinSize)
       IN  /\ sessions' = IF written
                          THEN SessionWrite(sessions, run.output_dir, MentorPromptsJson)
                          ELSE sessions
           /\ IF valid /\ prompts.truthy
              THEN /\ run' = Completed(r, "mentor_prompts")
                   /\ pc' = "mentorgram"
              ELSE /\ run' = Failed(IF written /\ ~valid
                                    THEN Invalid(r, "mentor_prompts") ELSE r,
                                    "Mentor prompts generation failed")
                   /\ pc' = AfterFailedStep("mentor_prompts", "prompts")
    /\ UNCHANGED <<now, mentors_db, styles, runCount, succeeded, unknownNames,
                   dirWriters, styleWriters, lastRewrite,
                   guiVars, scrVars, fnVars>>

\* Step 4: generate_daily_mentorgram; the three llm.invoke calls may raise
GenerateMentorgram(llmRaises, io) ==
    /\ pc = "mentorgram"
    /\ LET r == Attempt(run, "mentorgram")
           date == now \div TicksPerDay    \* strftime("%Y-%m-%d")
           mentorgram == JsonValue("dict", TRUE, 200, 180)
           written == ~llmRaises /\ io = "ok"
           valid == written /\ validate_json_file(JsonFileOf(mentorgram), MinSize)
       IN  /\ sessions' = IF written
                          THEN SessionWrite(sessions, run.output_dir, MentorgramJson(date))
                          ELSE sessions
           /\ IF valid /\ mentorgram.truthy
              THEN /\ run' = Completed([r EXCEPT !.date = date], "mentorgram")
                   /\ pc' = "summary"
              ELSE /\ run' = Failed(IF written /\ ~valid
                                    THEN Invalid(r, "mentorgram") ELSE r,
                                    "Mentor-gram generation failed")
                   /\ pc' = AfterFailedStep("mentorgram", "mentorgram")
    /\ UNCHANGED <<now, mentors_db, styles, runCount, succeeded, unknownNames,
                   dirWriters, styleWriters, lastRewrite,
                   guiVars, scrVars, fnVars>>

\* Step 5: create_session_summary
CreateSummary(io) ==
    /\ pc = "summary"
    /\ LET r == Attempt(run, "session_summary")
           summary == JsonValue("dict", TRUE, 900, 800)
           written == io = "ok"
           valid == written /\ validate_json_file(JsonFileOf(summary), MinSize)
       IN  /\ sessions' = IF written
                          THEN SessionWrite(sessions, run.output_dir, SessionSummaryJson)
                          ELSE sessions
           /\ IF valid /\ summary.truthy
              THEN /\ run' = Completed(r, "session_summary")
                   /\ pc' = "database"
              ELSE /\ run' = Failed(IF written /\ ~valid
                                    THEN Invalid(r, "session_summary") ELSE r,
                                    "Session summary creation failed")
                   /\ pc' = AfterFailedStep("session_summary", "summary")
    /\ UNCHANGED <<now, mentors_db, styles, runCount, succeeded, unknownNames,
                   dirWriters, styleWriters, lastRewrite,
                   guiVars, scrVars, fnVars>>

\* the entry update_mentors_database writes (last_updated, a timestamp no
\* code reads, is left out)
MentorEntry(mentor_name, output_dir) ==
    [display_name |-> mentor_name, safe_name |-> safe_filename(mentor_name),
     style_file |-> safe_filename(mentor_name) \o <<".","j","s","o","n">>,
     session_directory |-> output_dir, status |-> "active"]

\* update_mentors_database: load, set the entry, save; saved is what
\* save_mentors_db returns (False on IOError)
update_mentors_database(db, mentor_name, output_dir, saved) ==
    IF saved
    THEN Put(db, safe_filename(mentor_name), MentorEntry(mentor_name, output_dir))
    ELSE db

\* run_complete_analysis, lines 366-374: the database update and the verdict
UpdateDatabase(saved) ==
    /\ pc = "database"
    /\ mentors_db' = update_mentors_database(mentors_db, run.mentor_name,
                                             run.output_dir, saved)
    /\ run' = [(IF saved THEN Completed(run, "database_update")
                ELSE Failed(run, "Database update failed"))
               EXCEPT !.success = TRUE]
    /\ pc' = "done"
    /\ UNCHANGED <<now, styles, sessions, runCount, succeeded, unknownNames,
                   dirWriters, styleWriters, lastRewrite,
                   guiVars, scrVars, fnVars>>

\* `return results`
Return ==
    /\ pc = "done"
    /\ succeeded' = IF run.success THEN succeeded \cup {run.mentor_name} ELSE succeeded
    /\ run' = IdleRun
    /\ pc' = "idle"
    /\ UNCHANGED <<now, mentors_db, styles, sessions, runCount, unknownNames,
                   dirWriters, styleWriters, lastRewrite,
                   guiVars, scrVars, fnVars>>

\* MentorMirror.load_style_analysis: the value loaded, or None (NoJson)
load_style_analysis(store, mentor_name) ==
    FileAt(store, safe_filename(mentor_name)).value

\* main(), action "rewrite": what the subprocess reports
RewriteOutcome(store, mentor_name) ==
    IF ~load_style_analysis(store, mentor_name).truthy
    THEN "style analysis not found"
    ELSE "rewritten"

\* populate_authors: the safe names the dropdown holds as item data
ActiveMentors(db) == {k \in DOMAIN db : db[k].status = "active"}

NoRewrite == [mentor |-> <<>>, outcome |-> "none"]

\* MentorMirrorGUI.run_rewrite_text for the dropdown item mentor_safe_name,
\* followed by the rewrite subprocess it launches
GuiRewrite(mentor_safe_name) ==
    /\ pc = "idle"
    /\ mentor_safe_name \in ActiveMentors(mentors_db)
    /\ LET mentor_display_name == mentors_db[mentor_safe_name].display_name
       IN  lastRewrite' =
             IF mentor_safe_name = <<>>
             THEN [mentor |-> mentor_display_name, outcome |-> "please select a mentor"]
             ELSE [mentor |-> mentor_display_name,
                   outcome |-> RewriteOutcome(styles, mentor_display_name)]
    /\ UNCHANGED <<now, mentors_db, styles, sessions, pc, run, runCount, succeeded,
                   unknownNames, dirWriters, styleWriters,
                   guiVars, scrVars, fnVars>>


PipelineInit ==
    /\ now = 0
    /\ styles = <<>>
    /\ sessions = <<>>
    /\ pc = "idle"
    /\ run = IdleRun
    /\ runCount = 0
    /\ succeeded = {}
    /\ unknownNames = <<>>
    /\ dirWriters = <<>>
    /\ styleWriters = <<>>
    /\ lastRewrite = NoRewrite

PipelineNext ==
    \/ Tick
    \/ \E contentFound \in BOOLEAN, reply \in AuthorReplies :
          InferAuthor(contentFound, reply)
    \/ SetupSession
    \/ \E resp \in StyleResponses, io \in {"ok", "session", "central"} : AnalyzeStyle(resp, io)
    \/ \E io \in {"ok", "fail"} : GeneratePrompts(io)
    \/ \E llmRaises \in BOOLEAN, io \in {"ok", "fail"} : GenerateMentorgram(llmRaises, io)
    \/ \E io \in {"ok", "fail"} : CreateSummary(io)
    \/ \E saved \in BOOLEAN : UpdateDatabase(saved)
    \/ Return
    \/ \E k \in DOMAIN mentors_db : GuiRewrite(k)

\* ------------------------------------------------------------------ MentorMirrorGUI
pipeRest == <<now, styles, sessions, pc, run, runCount, succeeded, unknownNames,
              dirWriters, styleWriters, lastRewrite>>

\* currentData() of an empty dropdown (None; like "", it is falsy)
NoMentor == <<>>

\* A QProcess of run_script: its QProcess.state(), whether kill() was called on
\* it, and process.full_output as the chunks handle_output appended.
NewProcess(id, kind) ==
    [id |-> id, kind |-> kind, state |-> "Starting", killed |-> FALSE,
     full_output |-> <<>>]

\* any(p.state() == QProcess.ProcessState.Running for p in self.processes)
AnyRunning(procs) == \E i \in DOMAIN procs : procs[i].state = "Running"

\* run_script, lines 790-825: self.processes afterwards.  QProcess.start()
\* returns with the process in the Starting state; it is Running once the event
\* loop has delivered the start notification (at once where start() is
\* synchronous: ProcessStarted then follows with nothing in between).
RunScript(procs, id, kind) ==
    IF AnyRunning(procs) THEN procs
    ELSE Append(procs, NewProcess(id, kind))

\* self.processes.remove(process)
RemoveAt(procs, i) == SubSeq(procs, 1, i - 1) \o SubSeq(procs, i + 1, Len(procs))

\* What the subprocesses print, one chunk per readyReadStandardOutput.
ScrapeChunks == {"Content saved to: out_txt", "Content saved to: out_html"}
AnalysisChunks == {"Complete analysis finished successfully!"}
RewriteChunks == {"--- REWRITTEN TEXT ---\nyo\n--------------------",
                  "Error: Style analysis not found."}

ChunksOf(kind) ==
    CASE kind = "scrape" -> ScrapeChunks
      [] kind = "analysis" -> AnalysisChunks
      [] kind = "rewrite" -> RewriteChunks

\* The scraper's output directories as os.listdir shows them.
OutputDirs ==
    [d \in {"out_txt", "out_html"} |->
        CASE d = "out_txt" -> {[stem |-> "page_1", ext |-> "json"],
                               [stem |-> "page_1", ext |-> "txt"]}
          [] d = "out_html" -> {[stem |-> "page_1", ext |-> "html"]}]

\* group(1) of a chunk matching r"Content saved to: (.*)", "" for no match
SavedTo(chunk) ==
    CASE chunk = "Content saved to: out_txt" -> "out_txt"
      [] chunk = "Content saved to: out_html" -> "out_html"
      [] OTHER -> ""

\* re.search(r"Content saved to: (.*)", output): the first match, "" for None
OutputDirMatch(output) ==
    IF \E i \in DOMAIN output : SavedTo(output[i]) # ""
    THEN SavedTo(output[CHOOSE i \in DOMAIN output :
                    /\ SavedTo(output[i]) # ""
                    /\ \A j \in 1..(i - 1) : SavedTo(output[j]) = ""])
    ELSE ""

\* on_scraping_finished going on to the analysis whenever a directory is named
ContentFileFoundAnyDir(output) == OutputDirMatch(output) # ""

\* on_scraping_finished, lines 492-505: a content file was found
ContentFileFound(output) ==
    /\ OutputDirMatch(output) # ""
    \* [f for f in os.listdir(output_dir) if f.endswith('.txt')]
    /\ {f \in OutputDirs[OutputDirMatch(output)] : f.ext = "txt"} # {}

\* group(1).strip() of a chunk matching
\* r"--- REWRITTEN TEXT ---\n(.*?)\n--------------------", <<>> for no match
RewrittenIn(chunk) ==
    IF chunk = "--- REWRITTEN TEXT ---\nyo\n--------------------"
    THEN <<"y", "o">> ELSE <<>>

\* on_rewrite_finished, lines 657-660: self.last_rewritten_text afterwards
RewrittenText(output, last) ==
    IF \E i \in DOMAIN output : RewrittenIn(output[i]) # <<>>
    THEN RewrittenIn(output[CHOOSE i \in DOMAIN output :
                        /\ RewrittenIn(output[i]) # <<>>
                        /\ \A j \in 1..(i - 1) : RewrittenIn(output[j]) = <<>>])
    ELSE last

\* the keys of VOICE_MAPPINGS
VOICE_MAPPINGS ==
    { <<"e","m","i","n","e","m">>,
      <<"w","i","n","s","t","o","n","_","c","h","u","r","c","h","i","l","l">>,
      <<"a","n","d","r","e","w","_","t","a","t","e">>,
      <<"j","o","h","n","_","f","_","k","e","n","n","e","d","y">> }

\* update_tts_availability, lines 605-614: has_voice_mapping
HasVoiceMapping(mentor_safe_name) ==
    /\ mentor_safe_name # NoMentor
    /\ \E variation \in { Lower(mentor_safe_name),
                           Replace(Lower(mentor_safe_name), " ", "_"),
                           Replace(Lower(mentor_safe_name), "_", " ") } :
          variation \in VOICE_MAPPINGS

\* update_tts_availability, lines 620-637: the controls are shown (TRUE) or
\* hidden (FALSE)
update_tts_availability(mentor_safe_name, text, preserve, rewritten) ==
    /\ HasVoiceMapping(mentor_safe_name)
    /\ IF preserve THEN Strip(text, Whitespace) # <<>> ELSE rewritten # <<>>

\* on_user_text_changed leaving the controls as they are
OnUserTextChangedNoUpdate(text) == tts_visible

\* on_user_text_changed, lines 595-598: the visibility of the controls afterwards
on_user_text_changed(text) ==
    IF preserve_tone
    THEN update_tts_availability(author_current, text, preserve_tone, last_rewritten_text)
    ELSE tts_visible

\* closeEvent killing what cancel_current_operation kills
CloseEventKillsRunning(procs) ==
    [i \in DOMAIN procs |->
        IF procs[i].state = "Running" THEN [procs[i] EXCEPT !.killed = TRUE]
        ELSE procs[i]]

\* closeEvent, lines 850-851: for p in self.processes: p.kill()
CloseEventKills(procs) == [i \in DOMAIN procs |-> [procs[i] EXCEPT !.killed = TRUE]]

\* no TTSWorker was started yet
NothingSent == [text |-> <<>>, preserve |-> FALSE]

\* the user edits the URL field
EditUrl(text) ==
    /\ ~closed
    /\ url_input' = text
    /\ url_input # text
    /\ UNCHANGED <<processes, launched, buttons_enabled, cancel_enabled, user_text,
                   author_items, author_current, ttsVars, alive, closed,
                   pipeVars, scrVars, fnVars>>

\* the user edits the text box: on_user_text_changed
EditUserText(text) ==
    /\ ~closed
    /\ user_text' = text
    /\ user_text # text
    /\ tts_visible' = on_user_text_changed(text)
    /\ UNCHANGED <<processes, launched, buttons_enabled, cancel_enabled, url_input,
                   author_items, author_current, preserve_tone, last_rewritten_text,
                   tts_sent, alive, closed, pipeVars, scrVars, fnVars>>

\* the user picks another mentor in the dropdown: on_mentor_selection_changed
SelectMentor(safe_name) ==
    /\ ~closed
    /\ safe_name \in author_items
    /\ safe_name # author_current
    /\ author_current' = safe_name
    /\ tts_visible' = update_tts_availability(safe_name, user_text, preserve_tone,
                                              last_rewritten_text)
    /\ UNCHANGED <<processes, launched, buttons_enabled, cancel_enabled, url_input,
                   user_text, author_items, preserve_tone, last_rewritten_text,
                   tts_sent, alive, closed, pipeVars, scrVars, fnVars>>

\* add_mentor_button clicked: run_complete_workflow and run_scrape_then_analyze
ClickAddMentor ==
    /\ ~closed
    /\ buttons_enabled
    /\ launched < MaxProcs
    /\ IF url_input = "" \/ AnyRunning(processes)
       THEN UNCHANGED <<processes, launched, buttons_enabled, cancel_enabled, alive>>
       ELSE /\ processes' = RunScript(processes, launched + 1, "scrape")
            /\ launched' = launched + 1
            /\ alive' = alive \cup {launched + 1}
            /\ buttons_enabled' = FALSE
            /\ cancel_enabled' = TRUE
    /\ UNCHANGED <<url_input, user_text, author_items, author_current, ttsVars, closed,
                   pipeVars, scrVars, fnVars>>

\* rewrite_button clicked: run_rewrite_text
ClickRewrite ==
    /\ ~closed
    /\ buttons_enabled
    /\ launched < MaxProcs
    /\ IF \/ Strip(user_text, Whitespace) = <<>>
          \/ author_current = NoMentor
          \/ AnyRunning(processes)
       THEN UNCHANGED <<processes, launched, buttons_enabled, cancel_enabled, alive>>
       ELSE /\ processes' = RunScript(processes, launched + 1, "rewrite")
            /\ launched' = launched + 1
            /\ alive' = alive \cup {launched + 1}
            /\ buttons_enabled' = FALSE
            /\ cancel_enabled' = TRUE
    /\ UNCHANGED <<url_input, user_text, author_items, author_current, ttsVars, closed,
                   pipeVars, scrVars, fnVars>>

\* cancel_button clicked: cancel_current_operation
ClickCancel ==
    /\ ~closed
    /\ cancel_enabled
    /\ processes' = [i \in DOMAIN processes |->
                        IF processes[i].state = "Running"
                        THEN [processes[i] EXCEPT !.killed = TRUE]
                        ELSE processes[i]]
    /\ buttons_enabled' = TRUE
    /\ cancel_enabled' = FALSE
    /\ UNCHANGED <<launched, url_input, user_text, author_items, author_current,
                   ttsVars, alive, closed, pipeVars, scrVars, fnVars>>

\* Qt delivers the start notification: Starting -> Running
ProcessStarted(i) ==
    /\ ~closed
    /\ i \in DOMAIN processes
    /\ processes[i].state = "Starting"
    /\ processes' = [processes EXCEPT ![i].state = "Running"]
    /\ UNCHANGED <<launched, buttons_enabled, cancel_enabled, url_input, user_text,
                   author_items, author_current, ttsVars, alive, closed,
                   pipeVars, scrVars, fnVars>>

\* readyReadStandardOutput: handle_output
ProcessOutput(i, chunk) ==
    /\ ~closed
    /\ i \in DOMAIN processes
    /\ processes[i].state = "Running"
    /\ ~processes[i].killed
    /\ Len(processes[i].full_output) < MaxChunks
    /\ chunk \in ChunksOf(processes[i].kind)
    /\ processes' = [processes EXCEPT ![i].full_output = Append(@, chunk)]
    /\ UNCHANGED <<launched, buttons_enabled, cancel_enabled, url_input, user_text,
                   author_items, author_current, ttsVars, alive, closed,
                   pipeVars, scrVars, fnVars>>

\* the analysis subprocess saves mentors.json and prints that it did
AnalysisUpdatesDatabase(i, mentor_name) ==
    /\ ~closed
    /\ i \in DOMAIN processes
    /\ processes[i].state = "Running"
    /\ processes[i].kind = "analysis"
    /\ ~processes[i].killed
    /\ Len(processes[i].full_output) < MaxChunks
    /\ safe_filename(mentor_name) \notin DOMAIN mentors_db
    /\ mentors_db' = update_mentors_database(mentors_db, mentor_name, NoDir, TRUE)
    /\ processes' = [processes EXCEPT
                       ![i].full_output = Append(@, "Mentors database updated")]
    /\ UNCHANGED <<launched, buttons_enabled, cancel_enabled, url_input, user_text,
                   author_items, author_current, ttsVars, alive, closed,
                   pipeRest, scrVars, fnVars>>

\* finished: handle_finish and the on_finish callback given to run_script
ProcessFinished(i, current) ==
    /\ ~closed
    /\ i \in DOMAIN processes
    /\ processes[i].state = "Running"
    /\ LET p == processes[i]
           rest == RemoveAt(processes, i)
       IN  CASE p.kind = "scrape" ->
                  \* on_scraping_finished
                  IF ContentFileFound(p.full_output)
                  THEN \* run_complete_analysis
                       /\ processes' = RunScript(rest, launched + 1, "analysis")
                       /\ launched' = IF AnyRunning(rest) THEN launched ELSE launched + 1
                       /\ alive' = (alive \ {p.id})
                                     \cup (IF AnyRunning(rest) THEN {} ELSE {launched + 1})
                       /\ buttons_enabled' = IF AnyRunning(rest) THEN buttons_enabled
                                             ELSE FALSE
                       /\ cancel_enabled' = ~AnyRunning(rest)
                       /\ UNCHANGED <<author_items, author_current, ttsVars>>
                  ELSE /\ processes' = rest
                       /\ alive' = alive \ {p.id}
                       /\ buttons_enabled' = TRUE
                       /\ cancel_enabled' = FALSE
                       /\ UNCHANGED <<launched, author_items, author_current, ttsVars>>
             [] p.kind = "analysis" ->
                  \* on_analysis_finished
                  /\ processes' = rest
                  /\ alive' = alive \ {p.id}
                  /\ buttons_enabled' = TRUE
                  /\ cancel_enabled' = FALSE
                  /\ IF \E k \in DOMAIN p.full_output :
                          p.full_output[k] = "Complete analysis finished successfully!"
                     THEN \* populate_authors
                          /\ author_items' = ActiveMentors(mentors_db)
                          /\ author_current' = current
                          /\ current \in (IF ActiveMentors(mentors_db) = {}
                                          THEN {NoMentor} ELSE ActiveMentors(mentors_db))
                          /\ tts_visible' = update_tts_availability(
                                 current, user_text, preserve_tone, last_rewritten_text)
                     ELSE UNCHANGED <<author_items, author_current, tts_visible>>
                  /\ UNCHANGED <<launched, preserve_tone, last_rewritten_text, tts_sent>>
             [] p.kind = "rewrite" ->
                  \* on_rewrite_finished
                  /\ processes' = rest
                  /\ alive' = alive \ {p.id}
                  /\ buttons_enabled' = TRUE
                  /\ cancel_enabled' = FALSE
                  /\ last_rewritten_text' = RewrittenText(p.full_output, last_rewritten_text)
                  /\ tts_visible' = update_tts_availability(
                         author_current, user_text, preserve_tone,
                         RewrittenText(p.full_output, last_rewritten_text))
                  /\ UNCHANGED <<launched, author_items, author_current, preserve_tone,
                                 tts_sent>>
    /\ UNCHANGED <<url_input, user_text, closed, pipeVars, scrVars, fnVars>>

\* refresh_authors_button clicked: populate_authors
ClickRefresh(current) ==
    /\ ~closed
    /\ author_items # ActiveMentors(mentors_db)
    /\ author_items' = ActiveMentors(mentors_db)
    /\ author_current' = current
    /\ current \in (IF ActiveMentors(mentors_db) = {}
                    THEN {NoMentor} ELSE ActiveMentors(mentors_db))
    /\ tts_visible' = update_tts_availability(current, user_text, preserve_tone,
                                              last_rewritten_text)
    /\ UNCHANGED <<processes, launched, buttons_enabled, cancel_enabled, url_input,
                   user_text, preserve_tone, last_rewritten_text, tts_sent, alive,
                   closed, pipeVars, scrVars, fnVars>>

\* preserve_tone_checkbox toggled: on_preserve_tone_changed
TogglePreserveTone ==
    /\ ~closed
    /\ preserve_tone' = ~preserve_tone
    /\ LET text == Strip(user_text, Whitespace)
           rewritten == IF ~preserve_tone /\ text # <<>> THEN text
                        ELSE last_rewritten_text
       IN  /\ last_rewritten_text' = rewritten
           /\ tts_visible' = update_tts_availability(author_current, user_text,
                                                     ~preserve_tone, rewritten)
    /\ UNCHANGED <<processes, launched, buttons_enabled, cancel_enabled, url_input,
                   user_text, author_items, author_current, tts_sent, alive, closed,
                   pipeVars, scrVars, fnVars>>

\* play_pause_button clicked with the player stopped: toggle_playback and
\* generate_and_play_audio, which starts a TTSWorker on the text of the mode
ClickPlay ==
    /\ ~closed
    /\ tts_visible
    /\ LET text_to_convert == IF preserve_tone THEN Strip(user_text, Whitespace)
                              ELSE last_rewritten_text
       IN  IF text_to_convert = <<>> \/ ~HasVoiceMapping(author_current)
           THEN UNCHANGED tts_sent
           ELSE tts_sent' = [text |-> text_to_convert, preserve |-> preserve_tone]
    /\ UNCHANGED <<processes, launched, buttons_enabled, cancel_enabled, url_input,
                   user_text, author_items, author_current, preserve_tone,
                   last_rewritten_text, tts_visible, alive, closed,
                   pipeVars, scrVars, fnVars>>

\* the window is closed: closeEvent
CloseWindow ==
    /\ ~closed
    /\ closed' = TRUE
    /\ processes' = CloseEventKills(processes)
    /\ UNCHANGED <<launched, buttons_enabled, cancel_enabled, url_input, user_text,
                   author_items, author_current, ttsVars, alive,
                   pipeVars, scrVars, fnVars>>

\* the texts typed into the text box

\* the mentors an analysis subprocess may register
GuiMentorNames == { <<"E","m","i","n","e","m">>, <<"A","l"," ","B">> }

\* __init__: no process, the buttons enabled, the dropdown filled from mentors.json
GuiInit ==
    /\ processes = <<>>
    /\ launched = 0
    /\ buttons_enabled = TRUE
    /\ cancel_enabled = FALSE
    /\ url_input = ""
    /\ user_text = <<>>
    /\ author_items = ActiveMentors(mentors_db)
    /\ author_current \in (IF ActiveMentors(mentors_db) = {}
                           THEN {NoMentor} ELSE ActiveMentors(mentors_db))
    /\ preserve_tone = FALSE
    /\ last_rewritten_text = <<>>
    /\ tts_visible = FALSE
    /\ tts_sent = NothingSent
    /\ alive = {}
    /\ closed = FALSE

GuiNext ==
    \/ \E text \in {"", "https://example.com"} : EditUrl(text)
    \/ \E text \in {<<>>, <<" ">>, <<"h", "i">>} : EditUserText(text)
    \/ \E k \in author_items : SelectMentor(k)
    \/ ClickAddMentor
    \/ ClickRewrite
    \/ ClickCancel
    \/ \E i \in DOMAIN processes : ProcessStarted(i)
    \/ \E i \in DOMAIN processes, chunk \in ScrapeChunks \cup AnalysisChunks \cup RewriteChunks :
          ProcessOutput(i, chunk)
    \/ \E i \in DOMAIN processes, name \in GuiMentorNames : AnalysisUpdatesDatabase(i, name)
    \/ \E i \in DOMAIN processes,
          current \in {NoMentor} \cup {safe_filename(n) : n \in GuiMentorNames} :
          ProcessFinished(i, current)
    \/ \E current \in {NoMentor} \cup {safe_filename(n) : n \in GuiMentorNames} :
          ClickRefresh(current)
    \/ TogglePreserveTone
    \/ ClickPlay
    \/ CloseWindow

\* ------------------------------------------------------------------ url2txts: texts
\* A text the agent produced is a sequence of pieces; the pieces are the
\* phrases the scraper looks for and filler of a given length.  "<fence json>"
\* is three backticks, json and a newline; "<fence end>" is a newline and three
\* backticks.
TokenLen(t) ==
    CASE t = "<fence json>" -> 8
      [] t = "<fence end>" -> 4
      [] t = "\n" -> 1
      [] t = "The page " -> 9
      [] t = "The task was successfully completed" -> 35
      [] t = "Successfully extracted" -> 22
      [] t = "The main content of" -> 19
      [] t = "Task Completed" -> 14
      [] t = "was extracted successfully" -> 26
      [] t = "<html>" -> 6
      [] t = "lorem150" -> 150
      [] t = "lorem250" -> 250
      [] t = "lorem600" -> 600
      [] t = "{json600}" -> 600
      [] t = "{json250}" -> 250
      [] t = "[json300]" -> 300
      [] t = "{broken}" -> 9

RECURSIVE TextLen(_)
\* len(content)
TextLen(text) == IF text = <<>> THEN 0 ELSE TokenLen(Head(text)) + TextLen(Tail(text))

\* the piece ends with a newline
EndsLine(t) == t \in {"<fence json>", "\n"}

\* clean_content, line 45: the first re.sub removes an opening fence at a line
\* start, and the three backticks of a closing fence, which follow its newline;
\* the second re.sub on line 46 then finds no fence left at a line end.
Unfence(text) ==
    LET keep(i) == ~(text[i] = "<fence json>" /\ (i = 1 \/ EndsLine(text[i - 1])))
        piece(i) == IF text[i] = "<fence end>" THEN "\n" ELSE text[i]
        idx == {i \in DOMAIN text : keep(i)}
        rank(i) == Cardinality({j \in idx : j <= i})
    IN  [n \in 1..Cardinality(idx) |-> piece(CHOOSE i \in idx : rank(i) = n)]

\* clean_content on a str
clean_content(text) == Strip(Unfence(text), Whitespace)

\* content.startswith(phrase)
StartsWith(text, phrase) ==
    /\ text # <<>>
    /\ \/ Head(text) = phrase
       \/ phrase = "The page" /\ Head(text) = "The page "
       \/ phrase = "Successfully" /\ Head(text) = "Successfully extracted"
       \/ phrase = "<" /\ Head(text) = "<html>"

\* the lower-case phrases a piece contains
PhrasesIn(t) ==
    CASE t = "Task Completed" -> {"task completed"}
      [] t = "was extracted successfully" -> {"was extracted successfully", "extracted"}
      [] t = "Successfully extracted" -> {"extracted"}
      [] OTHER -> {}

\* phrase in content.lower()
Contains(text, phrase) == \E i \in DOMAIN text : phrase \in PhrasesIn(text[i])

\* "extracted" in content.lower()[:limit]
ExtractedWithin(text, limit) ==
    \E i \in DOMAIN text :
        /\ "extracted" \in PhrasesIn(text[i])
        /\ TextLen(SubSeq(text, 1, i - 1))
             + (IF text[i] = "was extracted successfully" THEN 13 ELSE TokenLen(text[i]))
           <= limit

\* ------------------------------------------------------------------ url2txts: Python values
\* What the scraper reads of a value: its type, its text when a str, the size
\* len(str(value)), and for a dict what the look-ups of save_content find in it.
PyValue(type, text, size, html, txt, chunked) ==
    [type |-> type, text |-> text, size |-> size, html |-> html, txt |-> txt,
     chunked |-> chunked]

Absent == PyValue("absent", <<>>, 0, FALSE, FALSE, FALSE)   \* hasattr is false
PyNone == PyValue("none", <<>>, 4, FALSE, FALSE, FALSE)
PyStr(text) == PyValue("str", text, TextLen(text), FALSE, FALSE, FALSE)
PyDict(size, html, txt) == PyValue("dict", <<>>, size, html, txt, FALSE)
PyList(size) == PyValue("list", <<>>, size, FALSE, FALSE, FALSE)

\* bool(value)
Truthy(v) ==
    CASE v.type \in {"absent", "none"} -> FALSE
      [] v.type = "str" -> v.text # <<>>
      [] OTHER -> v.size > 2

\* json.loads(text): the value, or Absent for JSONDecodeError
JsonLoads(text) ==
    IF Len(text) # 1 THEN Absent
    ELSE CASE text[1] = "{json600}" -> PyDict(600, FALSE, TRUE)
           [] text[1] = "{json250}" -> PyDict(250, FALSE, TRUE)
           [] text[1] = "[json300]" -> PyList(300)
           [] OTHER -> Absent

\* re.search for a json fence around a brace-delimited text in raw_content,
\* then json.loads(group(1)): the object, or Absent
FencedJson(text) ==
    LET hits == {i \in 1..(Len(text) - 2) :
                    /\ text[i] = "<fence json>"
                    /\ text[i + 1] \in {"{json600}", "{json250}", "{broken}"}
                    /\ text[i + 2] = "<fence end>"}
    IN  IF hits = {} THEN Absent
        ELSE JsonLoads(<<text[(CHOOSE i \in hits : \A j \in hits : i <= j) + 1]>>)

\* group(1) of the same search: the brace-delimited text inside the first json
\* fence, <<>> when nothing matches
FencedBlock(text) ==
    LET hits == {i \in 1..(Len(text) - 2) :
                    /\ text[i] = "<fence json>"
                    /\ text[i + 1] \in {"{json600}", "{json250}", "{broken}"}
                    /\ text[i + 2] = "<fence end>"}
    IN  IF hits = {} THEN <<>>
        ELSE <<text[(CHOOSE i \in hits : \A j \in hits : i <= j) + 1]>>

\* ------------------------------------------------------------------ url2txts: agent histories
\* One action result of a history step: the attributes the scraper probes with
\* hasattr, Absent when the object has no such attribute.
ActionResult(extracted_content, action_type, result, content, text) ==
    [extracted_content |-> extracted_content, action_type |-> action_type,
     result |-> result, content |-> content, text |-> text]

Extracted(value) == ActionResult(value, "", Absent, Absent, Absent)

PageText == <<"lorem600">>
SummaryText == <<"The page ", "lorem600">>

\* the action results an agent step is drawn from
ActionResults ==
    { Extracted(PyStr(PageText)),
      Extracted(PyStr(<<"<fence json>", "{json600}", "<fence end>">>)),
      Extracted(PyStr(<<"{json600}">>)),
      Extracted(PyStr(SummaryText)),
      Extracted(PyStr(<<"\n", "lorem600", "Task Completed">>)),
      Extracted(PyStr(<<"<html>", "lorem600">>)),
      Extracted(PyStr(<<"lorem250">>)),
      Extracted(PyDict(600, TRUE, FALSE)),
      Extracted(PyDict(300, FALSE, FALSE)),
      Extracted(PyList(300)),
      Extracted(PyNone),
      ActionResult(Absent, "extract_content", PyStr(<<"The page ", "lorem250">>), Absent, Absent),
      ActionResult(PyStr(SummaryText), "extract_content", PyStr(<<"lorem250">>),
                   Absent, Absent),
      ActionResult(Absent, "extract_content", PyStr(<<"{json600}">>), Absent, Absent),
      ActionResult(Absent, "done", Absent, Absent, PyStr(PageText)),
      ActionResult(Absent, "", Absent, Absent, PyStr(PageText)),
      ActionResult(Absent, "", Absent, PyStr(<<"Successfully extracted", "lorem600">>),
                   Absent),
      ActionResult(Absent, "click",
                   PyStr(<<"lorem600", "was extracted successfully">>), Absent, Absent) }

\* a history step: its result attribute is a list of action results, or not a list
Step(is_list, result) == [is_list |-> is_list, result |-> result]

\* what agent.run does: returns a history of steps, or raises with a message
\* holding these phrases
AgentRuns ==
    LET HistorySteps == {Step(TRUE, <<ar>>) : ar \in ActionResults} \cup {Step(FALSE, <<>>)}
        Histories == UNION {[1..n -> HistorySteps] : n \in 1..MaxSteps}
        Returned(history) == [raised |-> FALSE, phrases |-> {}, history |-> history]
        Raised(phrases) == [raised |-> TRUE, phrases |-> phrases, history |-> <<>>]
    IN  {Returned(h) : h \in Histories}
          \cup {Raised(ph) : ph \in {{"string_too_long", "10000 characters"},
                                     {"string_too_long"}, {}}}

RECURSIVE Scanned(_)
\* the action results in the order the loops visit them:
\* for step in reversed(history_steps), skipping a step whose result is not a
\* list, for action_result in step.result
Scanned(history) ==
    IF history = <<>> THEN <<>>
    ELSE LET step == history[Len(history)]
             rest == Scanned(SubSeq(history, 1, Len(history) - 1))
         IN  IF step.is_list THEN step.result \o rest ELSE rest

\* the loops return at the first action result that yields a value: the first
\* of yields that is not Absent
FirstHit(yields) ==
    LET hits == {i \in DOMAIN yields : yields[i] # Absent}
    IN  IF hits = {} THEN Absent
        ELSE yields[CHOOSE i \in hits : \A j \in hits : i <= j]

\* lines 229-243: a fenced JSON object in extracted_content
FencedJsonHit(ar) ==
    LET raw == ar.extracted_content
        parsed == FencedJson(raw.text)
    IN  IF raw.type = "str" /\ parsed.type = "dict" /\ parsed.size > 500
        THEN parsed ELSE Absent

\* lines 264-273
IsSummaryOrError(text) ==
    \/ StartsWith(text, "The task was successfully completed")
    \/ StartsWith(text, "Successfully extracted")
    \/ StartsWith(text, "The main content of")
    \/ StartsWith(text, "The page")
    \/ Contains(text, "task completed")
    \/ Contains(text, "was extracted successfully")
    \/ Contains(text, "404 error")
    \/ Contains(text, "does not exist")
    \/ Contains(text, "cannot be completed")
    \/ TextLen(text) < 200

\* content after `if isinstance(content, str): content = clean_content(content)`
Cleaned(value) == IF value.type = "str" THEN PyStr(clean_content(value.text)) ELSE value

\* lines 296-314: the result of an action of type extract_content
ActionTypeResult(ar) ==
    LET content == Cleaned(ar.result)
        parsed == JsonLoads(content.text)
    IN  IF ~(ar.action_type = "extract_content" /\ ar.result.type # "absent")
        THEN Absent
        ELSE IF content.type = "str" /\ parsed.type = "dict" /\ parsed.size > 500
        THEN parsed
        ELSE IF Truthy(content) /\ content.size > 200
        THEN content
        ELSE Absent

\* lines 250-314: one action result in the second loop
ExtractContentHit(ar) ==
    LET content == Cleaned(ar.extracted_content)
        parsed == JsonLoads(content.text)
    IN  IF ~Truthy(ar.extracted_content) THEN ActionTypeResult(ar)
        ELSE IF content.type = "str"
        THEN IF IsSummaryOrError(content.text) THEN Absent          \* continue
             ELSE IF parsed.type = "dict" /\ parsed.size > 500 THEN parsed
             ELSE IF content.size > 500 THEN content
             ELSE ActionTypeResult(ar)
        ELSE IF content.type \in {"dict", "list"} /\ content.size > 200 THEN content
        ELSE ActionTypeResult(ar)

\* lines 336-342
IsObviousSummary(text) ==
    \/ StartsWith(text, "The task was successfully completed")
    \/ StartsWith(text, "Successfully")
    \/ StartsWith(text, "The page")
    \/ StartsWith(text, "The main content of")
    \/ Contains(text, "task completed")
    \/ Contains(text, "was extracted successfully")
    \/ ExtractedWithin(text, 100)

\* lines 321-344: one action result in the third loop
OtherContentHit(ar) ==
    LET good(value) ==
            LET content == Cleaned(value)
            IN  /\ Truthy(content)
                /\ content.type = "str"
                /\ content.size > 500
                /\ ~IsObviousSummary(content.text)
    IN  IF ar.action_type = "done" THEN Absent
        ELSE IF good(ar.content) THEN Cleaned(ar.content)
        ELSE IF good(ar.text) THEN Cleaned(ar.text)
        ELSE IF good(ar.result) THEN Cleaned(ar.result)
        ELSE Absent

\* lines 222-347: what extract_content_from_url returns for a history
ExtractFromHistory(history) ==
    LET results == Scanned(history)
        first == FirstHit([i \in DOMAIN results |-> FencedJsonHit(results[i])])
        second == FirstHit([i \in DOMAIN results |-> ExtractContentHit(results[i])])
        third == FirstHit([i \in DOMAIN results |-> OtherContentHit(results[i])])
    IN  IF first # Absent THEN first
        ELSE IF second # Absent THEN second
        ELSE IF third # Absent THEN third
        ELSE PyNone

\* lines 367-372: the chunk tasks of extract_content_chunked
ChunkTasks == 4

\* lines 392-407: one action result of a chunk run
ChunkHit(ar) ==
    LET content == Cleaned(ar.extracted_content)
    IN  IF ~Truthy(ar.extracted_content) THEN Absent
        ELSE IF content.type = "str" /\ content.size > 50
        THEN IF \/ StartsWith(content.text, "Successfully")
                \/ StartsWith(content.text, "The page")
                \/ ExtractedWithin(content.text, 50)
             THEN Absent ELSE content
        ELSE IF content.type \in {"dict", "list"} THEN content
        ELSE Absent

\* lines 386-410: chunk_content of a chunk run, Absent for None
ChunkContent(history) ==
    LET results == Scanned(history)
    IN  FirstHit([i \in DOMAIN results |-> ChunkHit(results[i])])

\* lines 413-416: the entry appended to chunks; of its value the code reads the
\* type only (lines 439-442)
ChunkEntry(i, chunk_content) == [chunk |-> i, type |-> chunk_content.type]

\* lines 425-451: what extract_content_chunked returns for the chunks collected;
\* combined_text is set when a chunk is a str or a dict
CombinedContent(chunks) ==
    IF chunks = <<>> THEN PyNone
    ELSE PyValue("dict", <<>>, 100 * Len(chunks), FALSE,
                 \E i \in DOMAIN chunks : chunks[i].type \in {"str", "dict"}, TRUE)

\* ------------------------------------------------------------------ url2txts: saving
\* safe_filename of url2txts.py
url2txts_safe_filename(name) ==
    LET dashed == Replace(Replace(Replace(Lower(name), " ", "-"), "/", "-"), ".", "-")
        kept == SelectSeq(dashed, LAMBDA c : c \in SafeChars)
    IN  SubSeq(kept, 1, IF Len(kept) < 50 THEN Len(kept) ELSE 50)

\* main, lines 508-518: the last path segment of the section, or page_i
SectionName(i, segment) ==
    IF segment = <<>> THEN <<"p", "a", "g", "e", "_">> \o Decimal(i) ELSE segment


\* a file of the output directory; chunk is 0 but for chunk_<n>.json of the
\* <section>_chunks directory
OutFile(base, ext, chunk) == [base |-> base, ext |-> ext, chunk |-> chunk]

\* save_content, lines 50-159: the value returned and the files written
save_content(content, section_name, chunks, io_ok) ==
    LET cleaned == Cleaned(content)                                      \* 66-68
        parsed == IF cleaned.type = "str" THEN JsonLoads(cleaned.text) ELSE Absent
        value == IF parsed # Absent THEN parsed ELSE cleaned             \* 72-74
        is_dict == value.type = "dict"
        raw_html == value.type = "str" /\ StartsWith(Strip(value.text, Whitespace), "<")
        html == IF value.type = "str" THEN parsed = Absent /\ raw_html   \* 77-78
                ELSE is_dict /\ ~value.chunked /\ value.html             \* 103-114
        txt == IF value.type = "str"
               THEN parsed = Absent /\ ~raw_html /\ value.text # <<>>    \* 79-80
               ELSE /\ is_dict
                    /\ \/ value.txt                                      \* 89, 104-117
                       \/ ~value.chunked /\ ~value.html                  \* 120-121
        json == (is_dict \/ parsed # Absent) /\ Truthy(value)            \* 73, 84, 131
        base == url2txts_safe_filename(section_name)
        chunk_files == IF is_dict /\ value.chunked                       \* 92-99
                       THEN {OutFile(section_name, "json", i) : i \in DOMAIN chunks}
                       ELSE {}
    IN  IF ~io_ok THEN [ok |-> FALSE, files |-> {}]                      \* 157-159
        ELSE IF ~(html \/ txt \/ json)                                   \* 123-125
        THEN [ok |-> FALSE, files |-> chunk_files]
        ELSE [ok |-> TRUE,
              files |-> chunk_files
                  \cup (IF json THEN {OutFile(base, "json", 0)} ELSE {})
                  \cup (IF html THEN {OutFile(base, "html", 0)} ELSE {})
                  \cup (IF txt THEN {OutFile(base, "txt", 0)} ELSE {})]

\* line 350: error_msg = str(e), as the phrases the handler looks for in it
NoError == [raised |-> FALSE, phrases |-> {}]

ErrorMsg(outcome) == [raised |-> TRUE, phrases |-> outcome.phrases]

\* ------------------------------------------------------------------ url2txts: main
\* main, lines 504-518: the loop takes the next section
StartSection(segment) ==
    /\ scr_pc = "start"
    /\ scr_section.i < MaxSections
    /\ scr_section' = [i |-> scr_section.i + 1,
                       name |-> SectionName(scr_section.i + 1, segment)]
    /\ scr_pc' = "run"
    /\ scr_runs' = 0
    /\ scr_chunks' = <<>>
    /\ scr_error' = NoError
    /\ scr_content' = PyNone
    /\ UNCHANGED <<scr_files, scr_saved, pipeVars, guiVars, fnVars>>

IsStringTooLongAnyLimit(error_msg) ==
    "string_too_long" \in error_msg.phrases

\* line 354: the string_too_long validation error
IsStringTooLong(error_msg) ==
    /\ "string_too_long" \in error_msg.phrases
    /\ "10000 characters" \in error_msg.phrases

\* extract_content_from_url, lines 218-359: the normal agent run
AgentRun(outcome) ==
    /\ scr_pc = "run"
    /\ scr_runs' = scr_runs + 1
    /\ IF ~outcome.raised
       THEN /\ scr_content' = ExtractFromHistory(outcome.history)
            /\ scr_error' = NoError
            /\ scr_pc' = "save"
       ELSE IF IsStringTooLong(ErrorMsg(outcome))
       THEN /\ scr_pc' = "chunk"                                        \* 354-356
            /\ scr_error' = ErrorMsg(outcome)
            /\ UNCHANGED scr_content
       ELSE /\ scr_content' = PyNone                                    \* 357-359
            /\ scr_error' = ErrorMsg(outcome)
            /\ scr_pc' = "save"
    /\ UNCHANGED <<scr_section, scr_chunks, scr_files, scr_saved, pipeVars, guiVars, fnVars>>

\* extract_content_chunked, lines 374-451: the agent run of one chunk task,
\* and after the last one the combined result
ChunkRun(outcome) ==
    /\ scr_pc = "chunk"
    /\ LET chunk == IF outcome.raised THEN Absent ELSE ChunkContent(outcome.history)
           chunks == IF chunk = Absent THEN scr_chunks
                     ELSE Append(scr_chunks, ChunkEntry(scr_runs, chunk))
       IN  /\ scr_chunks' = chunks
           /\ scr_runs' = scr_runs + 1
           /\ IF scr_runs = ChunkTasks
              THEN scr_content' = CombinedContent(chunks) /\ scr_pc' = "save"
              ELSE UNCHANGED <<scr_content, scr_pc>>
    /\ UNCHANGED <<scr_section, scr_error, scr_files, scr_saved, pipeVars, guiVars, fnVars>>

\* main, lines 527-531
SaveSection(io_ok) ==
    /\ scr_pc = "save"
    /\ scr_pc' = "start"
    /\ IF Truthy(scr_content)
       THEN LET saved == save_content(scr_content, scr_section.name, scr_chunks, io_ok)
            IN  /\ scr_files' = scr_files \cup saved.files
                /\ scr_saved' = IF saved.ok THEN scr_saved \cup {scr_section.name}
                                ELSE scr_saved
       ELSE UNCHANGED <<scr_files, scr_saved>>
    /\ UNCHANGED <<scr_section, scr_content, scr_runs, scr_chunks, scr_error, pipeVars, guiVars,
                   fnVars>>

\* ------------------------------------------------------------------ functions on their own
\* A call: the function and its arguments; its result once it has returned.
Call(fn, args) == [fn |-> fn, args |-> args]
Pending == [returned |-> FALSE, value |-> <<>>]
Returns(value) == [returned |-> TRUE, value |-> value]

\* the texts an LLM answers the analysis prompt with
StyleTexts ==
    LET StyleTokens == {"<fence json>", "{json600}", "{broken}", "<fence end>", "lorem150",
                        "[json300]"}
    IN  UNION {[1..n -> StyleTokens] : n \in 1..MaxTextLen}

\* a value json.loads returned as the pipeline holds it, NoJson for
\* JSONDecodeError
JsonOf(value) ==
    IF value = Absent THEN NoJson
    ELSE JsonValue(value.type, Truthy(value), value.size, value.size)

\* analyze_writing_style, lines 51-56, on response.content: the fence searched
\* for, and what json.loads makes of the block found or else of the whole text
StyleResponseOf(content) ==
    LET block == FencedBlock(content)
    IN  StyleResponse(FALSE, block # <<>>,
                      JsonOf(JsonLoads(IF block # <<>> THEN block ELSE content)),
                      TextLen(content))

\* StyleEmulator.analyze_writing_style(text) returns
ReturnAnalyzeWritingStyle ==
    /\ fn_call.fn = "analyze_writing_style"
    /\ ~fn_result.returned
    /\ fn_result' = Returns(analyze_writing_style(StyleResponseOf(fn_call.args)))
    /\ UNCHANGED <<fn_call, pipeVars, guiVars, scrVars>>

\* the replies to the author prompt: a name, or none, or too long a text, with
\* whitespace and quote characters around it
Pads == UNION {[1..n -> {" ", "\n", "\"", "'"}] : n \in 0..MaxPad}
Filler(n) == [i \in 1..n |-> "x"]
ReplyCores ==
    { <<>>, <<"A","l"," ","B">>, <<"a"," ","b"," ","c"," ","d"," ","e">>,
      Filler(50), Filler(51), UnknownAuthor, Lower(UnknownAuthor) }
InferenceReplies ==
    {AuthorReply(TRUE, <<>>)}
      \cup {AuthorReply(FALSE, pre \o core \o post) :
               pre \in Pads, core \in ReplyCores, post \in Pads}

\* mentors.json as load_mentors_db returns it, holding the first n unknown authors
UnknownsDb(n) ==
    [k \in {safe_filename(UnknownAuthor \o <<" ">> \o Decimal(i)) : i \in 1..n} |->
        MentorEntry(UnknownAuthor, NoDir)]

\* MentorMirror.infer_author_from_content(content) returns
ReturnInferAuthorFromContent ==
    /\ fn_call.fn = "infer_author_from_content"
    /\ ~fn_result.returned
    /\ fn_result' = Returns(infer_author_from_content(fn_call.args.reply,
                                                      fn_call.args.db))
    /\ UNCHANGED <<fn_call, pipeVars, guiVars, scrVars>>

\* the names get_unique_author_name is called on, and the databases
BaseNames ==
    { UnknownAuthor, Lower(UnknownAuthor), UnknownAuthor \o <<" ", "1">>,
      <<"A","l"," ","B">>, <<"E","m","i","n","e","m">> }
MentorDbs ==
    {UnknownsDb(n) : n \in 0..MaxTaken}
      \cup {[k \in {safe_filename(n) : n \in names} |-> MentorEntry(k, NoDir)] :
               names \in SUBSET {<<"A","l"," ","B">>, <<"E","m","i","n","e","m">>}}

\* get_unique_author_name(base_name, mentors_db) returns
ReturnGetUniqueAuthorName ==
    /\ fn_call.fn = "get_unique_author_name"
    /\ ~fn_result.returned
    /\ fn_result' = Returns(get_unique_author_name(fn_call.args.base_name,
                                                   fn_call.args.db))
    /\ UNCHANGED <<fn_call, pipeVars, guiVars, scrVars>>

\* the files validate_json_file is called on: none, or a text of a length
\* around min_size that is not JSON, or is JSON for a value with a string form
\* of a length around min_size
SizesAround(min_size) ==
    {n \in (min_size - MaxSlack)..(min_size + MaxSlack) : n >= 0}
FilesAround(min_size) ==
    {NoFile}
      \cup {[textlen |-> n, parses |-> FALSE, value |-> NoJson] :
               n \in SizesAround(min_size)}
      \cup {[textlen |-> n, parses |-> TRUE,
             value |-> JsonValue(type, truthy, n, m)] :
               n \in SizesAround(min_size), m \in SizesAround(min_size),
               type \in {"dict", "list", "str", "int"}, truthy \in BOOLEAN}

\* validate_json_file(file_path, min_size) returns
ReturnValidateJsonFile ==
    /\ fn_call.fn = "validate_json_file"
    /\ ~fn_result.returned
    /\ fn_result' = Returns(validate_json_file(fn_call.args.file,
                                               fn_call.args.min_size))
    /\ UNCHANGED <<fn_call, pipeVars, guiVars, scrVars>>

FnCalls ==
    {Call("analyze_writing_style", text) : text \in StyleTexts}
      \cup {Call("get_unique_author_name", [base_name |-> name, db |-> db]) :
               name \in BaseNames, db \in MentorDbs}
      \cup UNION {{Call("validate_json_file", [file |-> file, min_size |-> min_size]) :
                      file \in FilesAround(min_size)} : min_size \in {0, MinSize, 2 * MinSize}}
      \cup {Call("infer_author_from_content", [reply |-> reply, db |-> UnknownsDb(n)]) :
               reply \in InferenceReplies, n \in 0..MaxTaken}

FnIdle == fn_call = Call("none", <<>>) /\ fn_result = Pending

FnNext ==
    \/ ReturnAnalyzeWritingStyle
    \/ ReturnInferAuthorFromContent
    \/ ReturnGetUniqueAuthorName
    \/ ReturnValidateJsonFile

ScraperInit ==
    /\ scr_pc = "start"
    /\ scr_section = [i |-> 0, name |-> <<>>]
    /\ scr_content = PyNone
    /\ scr_runs = 0
    /\ scr_chunks = <<>>
    /\ scr_error = NoError
    /\ scr_files = {}
    /\ scr_saved = {}

ScraperNext ==
    \/ \E segment \in {<<>>, <<"F", "a", "q", ".", "h", "t", "m", "l">>} :
          StartSection(segment)
    \/ \E outcome \in AgentRuns : AgentRun(outcome)
    \/ \E outcome \in AgentRuns : ChunkRun(outcome)
    \/ \E io_ok \in BOOLEAN : SaveSection(io_ok)

\* a first start: mentors/ is empty
Init == mentors_db = <<>> /\ PipelineInit /\ GuiInit /\ ScraperInit /\ FnIdle

\* a function is called on arguments of its domain
FnSpecInit ==
    /\ mentors_db = <<>> /\ PipelineInit /\ GuiInit /\ ScraperInit
    /\ fn_call \in FnCalls
    /\ fn_result = Pending

\* the GUI started on the mentors.json an earlier session left
GuiSpecInit ==
    /\ \E names \in {{}, GuiMentorNames} :
          mentors_db = [k \in {safe_filename(n) : n \in names} |->
                          MentorEntry(CHOOSE n \in names : safe_filename(n) = k, NoDir)]
    /\ PipelineInit /\ GuiInit /\ ScraperInit /\ FnIdle

PipelineSpec == Init /\ [][PipelineNext]_vars

GuiSpec == GuiSpecInit /\ [][GuiNext]_vars

ScraperSpec == Init /\ [][ScraperNext]_vars

FnSpec == FnSpecInit /\ [][FnNext]_vars

\* ------------------------------------------------------------------ properties of the pipeline

StepError(step) ==
    CASE step = "style_analysis" -> "Style analysis failed"
      [] step = "mentor_prompts" -> "Mentor prompts generation failed"
      [] step = "mentorgram" -> "Mentor-gram generation failed"
      [] step = "session_summary" -> "Session summary creation failed"

\* C2, as claimed: a step whose written artifact failed validate_json_file has
\* been attempted at least twice by the time the workflow gives up and returns.
C2_RetriedBeforeGivingUp ==
    pc = "done" => \A s \in run.invalid : run.attempts[s] >= 2

\* C2, amended: a step whose written artifact fails validate_json_file is not
\* retried; it has been attempted exactly once, the workflow is returning with
\* success = False and that step's error as its only error.
C2_FailedValidationEndsRun ==
    \A s \in run.invalid :
        /\ run.attempts[s] = 1
        /\ pc = "done"
        /\ ~run.success
        /\ run.errors = <<StepError(s)>>

C2_Witness == pc = "done" /\ "style_analysis" \in run.invalid

\* C3: when run_complete_analysis returns success = True, the run's session
\* directory holds style_analysis.json, mentor_prompts.json, the mentor-gram of
\* the run's date and session_summary.json.
C3_SuccessHasAllArtifacts ==
    (pc = "done" /\ run.success) =>
        /\ run.output_dir \in DOMAIN sessions
        /\ {StyleAnalysisJson, MentorPromptsJson, MentorgramJson(run.date),
            SessionSummaryJson} \subseteq sessions[run.output_dir]

C3_Witness == pc = "done" /\ run.success /\ run.date >= 0

\* C4: no session directory was handed to more than one run by setup_session.
C4_OneRunPerSessionDir ==
    \A d \in DOMAIN dirWriters : Cardinality(dirWriters[d]) <= 1

\* C5: when run_complete_analysis returns success = True, mentors.json holds an
\* active entry under safe_filename(mentor_name).
C5_SuccessMeansInDatabase ==
    (pc = "done" /\ run.success) =>
        /\ safe_filename(run.mentor_name) \in DOMAIN mentors_db
        /\ mentors_db[safe_filename(run.mentor_name)].status = "active"

\* C8: the runs whose author could not be inferred all got different
\* "Unknown Author N" names, and no central style file of such a name was
\* written by two runs.
C8_UnknownAuthorsDistinct ==
    /\ \A i, j \in DOMAIN unknownNames :
          i # j => unknownNames[i] # unknownNames[j]
    /\ \A i \in DOMAIN unknownNames :
          LET k == safe_filename(unknownNames[i])
          IN  k \in DOMAIN styleWriters => Cardinality(styleWriters[k]) <= 1

\* C9: a rewrite for a mentor whose complete analysis returned success never
\* reports that the style analysis was not found.
C9_RewriteFindsStyle ==
    lastRewrite.mentor \in succeeded =>
        lastRewrite.outcome # "style analysis not found"

\* ------------------------------------------------------------------ properties of the GUI

Running(procs) == {i \in DOMAIN procs : procs[i].state = "Running"}
ProcessIds(procs) == {procs[i].id : i \in DOMAIN procs}

\* C1: at most one subprocess launched through run_script is in the Running
\* state, after any sequence of user actions and subprocess events.
C1_AtMostOneRunning == Cardinality(Running(processes)) <= 1

\* C10: an analysis subprocess appears only in the step in which a running
\* scraper subprocess finishes, and only if that scraper's output names an
\* output directory holding at least one .txt file.
C10_AnalysisOnlyAfterScrape ==
    [][ \A j \in DOMAIN processes' :
          (processes'[j].kind = "analysis" /\ processes'[j].id \notin ProcessIds(processes))
          => \E i \in DOMAIN processes :
                /\ processes[i].kind = "scrape"
                /\ processes[i].state = "Running"
                /\ processes[i].id \notin ProcessIds(processes')
                /\ LET output_dir == OutputDirMatch(processes[i].full_output)
                   IN  /\ output_dir # ""
                       /\ \E f \in OutputDirs[output_dir] : f.ext = "txt" ]_vars

C10_Witness == \E i \in DOMAIN processes : processes[i].kind = "analysis"

\* C14: the name get_unique_author_name returns is not yet in the database:
\* its safe_filename is not a key.
C14_ReturnedNameNotInDatabase ==
    (fn_call.fn = "get_unique_author_name" /\ fn_result.returned) =>
        safe_filename(fn_result.value) \notin DOMAIN fn_call.args.db

C13_RewriteModeSpeaksRewrittenText ==
    (tts_sent # NothingSent /\ ~tts_sent.preserve) =>
        \E chunk \in RewriteChunks :
            RewrittenIn(chunk) # <<>> /\ tts_sent.text = RewrittenIn(chunk)

\* C16: every subprocess that has not finished is in self.processes, and once
\* closeEvent has run each of them was killed.
C16_RunningProcessesKilledOnClose ==
    /\ alive \subseteq ProcessIds(processes)
    /\ closed => \A i \in DOMAIN processes :
                    processes[i].id \in alive => processes[i].killed

\* the window was closed on a subprocess that had not yet reported started
C16_Witness ==
    /\ closed
    /\ \E i \in DOMAIN processes :
          /\ processes[i].state = "Starting"
          /\ processes[i].id \in alive
          /\ processes[i].killed

\* C17: the TTS controls are visible only if the selected mentor has a voice
\* mapping and the text of the current mode is non-empty: the user's text with
\* preserve-tone checked, the last rewritten text otherwise.
C17_ControlsVisibleOnlyWithVoiceAndText ==
    tts_visible =>
        /\ HasVoiceMapping(author_current)
        /\ IF preserve_tone THEN Strip(user_text, Whitespace) # <<>>
           ELSE last_rewritten_text # <<>>

\* the controls are shown in preserve-tone mode on the user's text
C17_Witness ==
    /\ tts_visible
    /\ preserve_tone
    /\ user_text = <<"h", "i">>
    /\ HasVoiceMapping(author_current)

\* ------------------------------------------------------------------ url2txts: properties
\* C6: every section for which save_content returned True has a .txt file in
\* the output directory.
C6_SavedSectionHasText ==
    \A name \in scr_saved :
        OutFile(url2txts_safe_filename(name), "txt", 0) \in scr_files

\* the phrases by which the scraper recognises an agent summary
LooksLikeSummary(text) ==
    \/ StartsWith(text, "The task was successfully completed")
    \/ StartsWith(text, "Successfully extracted")
    \/ StartsWith(text, "The main content of")
    \/ StartsWith(text, "The page")
    \/ Contains(text, "task completed")
    \/ Contains(text, "was extracted successfully")

\* C7: a string extract_content_from_url returned neither starts with one of
\* the summary openings nor contains one of the summary phrases.
C7_NeverReturnsSummary ==
    (scr_pc = "save" /\ scr_content.type = "str") => ~LooksLikeSummary(scr_content.text)

\* the error of the normal run names the string_too_long validation error:
\* both 'string_too_long' and '10000 characters' are in its message
TooLongError ==
    /\ scr_error.raised
    /\ {"string_too_long", "10000 characters"} \subseteq scr_error.phrases

\* C18: extract_content_from_url runs chunk tasks only after the normal agent
\* run raised an error whose message contains both 'string_too_long' and
\* '10000 characters'; after any other error it returns None having made the
\* one normal run only; and one call makes at most one normal run plus four
\* chunk runs.
C18_ChunkedOnlyAfterTooLongError ==
    /\ scr_runs <= 1 + 4
    /\ (scr_pc = "chunk" \/ scr_runs > 1 \/ scr_chunks # <<>>) => TooLongError
    /\ (scr_pc = "save" /\ scr_error.raised /\ ~TooLongError) =>
           /\ scr_content = PyNone
           /\ scr_runs = 1

C18_Witness ==
    /\ scr_pc = "save"
    /\ TooLongError
    /\ scr_runs = 1 + 4
    /\ scr_chunks # <<>>

\* ------------------------------------------------------------------ functions: properties
\* C11: analyze_writing_style returns a value for every response text: the
\* parsed object of the json fenced block when there is one, otherwise the
\* parsed whole response, and the fallback {analysis: text, raw_response: true}
\* when the parse fails; the parse error never escapes.
C11_AnalysisParsedOrFallback ==
    (fn_call.fn = "analyze_writing_style" /\ fn_result.returned) =>
        LET text == fn_call.args
            block == FencedBlock(text)
            parsed == JsonLoads(IF block # <<>> THEN block ELSE text)
        IN  /\ fn_result.value # NoJson
            /\ fn_result.value = IF parsed # Absent THEN JsonOf(parsed)
                                 ELSE RawFallback(TextLen(text))

\* a response whose fenced block is not JSON got the fallback
C11_Witness ==
    /\ fn_call.fn = "analyze_writing_style"
    /\ fn_result.returned
    /\ FencedBlock(fn_call.args) = <<"{broken}">>
    /\ fn_result.value = RawFallback(TextLen(fn_call.args))

\* the name is "Unknown Author N" for the first N that db does not hold
IsNextUnknown(name, db) ==
    \E n \in 1..(Cardinality(DOMAIN db) + 1) :
        /\ name = UnknownAuthor \o <<" ">> \o Decimal(n)
        /\ safe_filename(name) \notin DOMAIN db
        /\ \A i \in 1..(n - 1) :
              safe_filename(UnknownAuthor \o <<" ">> \o Decimal(i)) \in DOMAIN db

====
